---- MODULE Spec2Model ----
(***************************************************************************)
(* Model of the translator server (servers/translator/src/main.rs): the    *)
(* identity validator, the four repository fetches, the try_join! of the   *)
(* use case, the fold into the IndexMap, the Prometheus presenter and the  *)
(* /metrics handler.                                                        *)
(*                                                                          *)
(* Strings are sequences of Unicode code points; text produced by the      *)
(* program is a sequence of code points too, so that lines can be counted  *)
(* by their terminators.  A Result is [ok |-> TRUE, val |-> v] or          *)
(* [ok |-> FALSE, err |-> text]; an Option is [some |-> FALSE] or          *)
(* [some |-> TRUE, val |-> v].                                              *)
(***************************************************************************)
EXTENDS Integers, Sequences, FiniteSets, TLC

VARIABLES
    source,         \* the four responses the game-data server would send
    slots,          \* try_join!: the output slot of each of the four futures
    fetch_failed,   \* whether a fetch has returned Err
    last_completed, \* the future whose completion ended the join with Ok (0: none)
    pc,             \* position of the request handler
    result_map,     \* Option<IndexMap<Player, AggregatedPlayerData>>
    capacity,       \* the capacity the map was created with
    cursor,         \* position of the four for-loops of the fold
    aggregated,     \* Option<Result<KnownAggregatedPlayerData>>
    rendered,       \* Option<Result<String>>: the and_then chain of the handler
    response,       \* Option<Response>
    uuid_input,     \* argument of PlayerUuidString::from_string
    uuid_result,    \* Option of its Result
    present_input,  \* argument of present_player_data_as_prometheus_metrics
    present_output  \* Option of its Result

vars == <<source, slots, fetch_failed, last_completed, pc, result_map, capacity, cursor,
          aggregated, rendered, response,
          uuid_input, uuid_result, present_input, present_output>>

request_vars == <<source, slots, fetch_failed, last_completed, pc, result_map, capacity, cursor,
                  aggregated, rendered, response>>

validate_vars == <<uuid_input, uuid_result>>

present_vars == <<present_input, present_output>>

-----------------------------------------------------------------------------
(* Bounds and program constants *)

UuidLen == 36

MaxCount == 1

MaxTotal == 3

MaxStrLen == 38

MaxEntries == 2

-----------------------------------------------------------------------------
(* Option and Result *)

None == [some |-> FALSE]

Some(v) == [some |-> TRUE, val |-> v]

Ok(v) == [ok |-> TRUE, val |-> v]

Err(e) == [ok |-> FALSE, err |-> e]

\* The variables of an operation that is not running.
IdleRequest ==
    /\ source = <<>>
    /\ slots = <<>>
    /\ fetch_failed = FALSE
    /\ last_completed = 0
    /\ pc = "idle"
    /\ result_map = None
    /\ capacity = 0
    /\ cursor = [loop |-> 0, idx |-> 0]
    /\ aggregated = None
    /\ rendered = None
    /\ response = None

IdleValidate == uuid_input = <<>> /\ uuid_result = None

IdlePresent == present_input = <<>> /\ present_output = None

-----------------------------------------------------------------------------
(* Strings: UTF-8 encoding and decoding *)

\* The UTF-8 encoding of a code point below 0x800 is one byte (below 0x80) or
\* two; NoByte stands for the second byte of a one-byte character.
NoByte == 0 - 1

Utf8First(cp) == IF cp < 128 THEN cp ELSE 192 + (cp \div 64)

Utf8Second(cp) == IF cp < 128 THEN NoByte ELSE 128 + (cp % 64)

IsByte(b) == b # NoByte

\* str::as_bytes: the UTF-8 encoding of the string.  A string of code points
\* below 0x80 is its own encoding (Utf8First is the identity there and there is
\* no second byte); any other string is encoded character by character.
as_bytes(str) ==
    IF \A i \in 1..Len(str) : str[i] < 128
    THEN str
    ELSE SelectSeq([j \in 1..(2 * Len(str)) |->
                       IF j % 2 = 1 THEN Utf8First(str[(j + 1) \div 2])
                                    ELSE Utf8Second(str[j \div 2])],
                   IsByte)

all_below_128(bytes) == \A i \in 1..Len(bytes) : bytes[i] < 128

\* str::len counts bytes.
str_len(str) == Len(as_bytes(str))

\* str::is_ascii: every byte is below 0x80.
is_ascii(str) == all_below_128(as_bytes(str))

\* std::str::from_utf8 on one- and two-byte sequences.
RECURSIVE decode_from(_, _)
decode_from(bytes, i) ==
    IF i > Len(bytes) THEN Ok(<<>>)
    ELSE IF bytes[i] < 128
         THEN LET rest == decode_from(bytes, i + 1)
              IN  IF rest.ok THEN Ok(<<bytes[i]>> \o rest.val) ELSE rest
    ELSE IF /\ bytes[i] >= 194 /\ bytes[i] <= 223 /\ Len(bytes) >= i + 1
            /\ bytes[i + 1] >= 128 /\ bytes[i + 1] <= 191
         THEN LET rest == decode_from(bytes, i + 2)
              IN  IF rest.ok
                  THEN Ok(<<(bytes[i] - 192) * 64 + (bytes[i + 1] - 128)>> \o rest.val)
                  ELSE rest
    ELSE Err(<<>>)

from_utf8(bytes) == decode_from(bytes, 1)

\* u64 Display: the decimal digits, most significant first.
RECURSIVE to_decimal(_)
to_decimal(n) ==
    IF n < 10 THEN <<48 + n>> ELSE to_decimal(n \div 10) \o <<48 + (n % 10)>>

-----------------------------------------------------------------------------
(* domain::PlayerUuidString *)

NotAsciiMsg ==
    <<69, 120, 112, 101, 99, 116, 101, 100, 32, 97, 115, 99, 105, 105, 32, 115,
      116, 114, 105, 110, 103, 32, 102, 111, 114, 32, 85, 117, 105, 100, 83, 116,
      114, 105, 110, 103, 44, 32, 103, 111, 116, 32>>

BadLengthMsg ==
    <<69, 120, 112, 101, 99, 116, 32, 115, 116, 114, 105, 110, 103, 32, 111, 102,
      32, 108, 101, 110, 103, 116, 104, 32, 51, 54, 32, 102, 111, 114, 32, 85,
      117, 105, 100, 83, 116, 114, 105, 110, 103, 44, 32, 103, 111, 116, 32>>

\* A plausible slip: the length is checked and the encoding is not.
from_string_length_only(str) ==
    LET bytes == as_bytes(str)
    IN  IF Len(bytes) # UuidLen
        THEN Err(BadLengthMsg \o str)
        ELSE Ok(bytes)

\* !str.is_ascii(), then str.len() != 36, then the copy of str.as_bytes(); the
\* bytes are encoded once and used for the three.
from_string(str) ==
    LET bytes == as_bytes(str)
    IN  IF ~all_below_128(bytes)
        THEN Err(NotAsciiMsg \o str)
        ELSE IF Len(bytes) # UuidLen
        THEN Err(BadLengthMsg \o str)
        ELSE Ok(bytes)

as_str(uuid) == from_utf8(uuid)

-----------------------------------------------------------------------------
(* infra_repository_impls: the generated records and their conversion *)

PlayerFieldNotSetMsg ==
    <<80, 108, 97, 121, 101, 114, 32, 102, 105, 101, 108, 100, 32, 110, 111, 116,
      32, 115, 101, 116>>

\* The text of the tonic::Status of a call that did not go through.
UnavailableMsg ==
    <<115, 116, 97, 116, 117, 115, 58, 32, 85, 110, 97, 118, 97, 105, 108, 97,
      98, 108, 101>>

into_domain_player(p) ==
    LET r == from_string(p.uuid)
    IN  IF r.ok THEN Ok([uuid |-> r.val]) ELSE r

extract_domain_player(player) ==
    IF ~player.some
    THEN Err(PlayerFieldNotSetMsg)
    ELSE into_domain_player(player.val)

\* try_into_domain_player_{break_count, build_count, play_ticks, vote_count}:
\* the four conversions differ in the name of the count field only.
try_into_domain_player_count(value) ==
    LET p == extract_domain_player(value.player)
    IN  IF p.ok THEN Ok([player |-> p.val, count |-> value.count]) ELSE p

\* A plausible slip: filter_map, which drops the records that do not convert.
RECURSIVE collect_skipping(_)
collect_skipping(results) ==
    IF results = <<>> THEN Ok(<<>>)
    ELSE LET h == try_into_domain_player_count(Head(results))
             t == collect_skipping(Tail(results))
         IN  IF h.ok THEN Ok(<<h.val>> \o t.val) ELSE t

\* .into_iter().map(try_into_...).collect::<Result<_, _>>(): the first Err, or
\* all the converted records.
RECURSIVE collect(_)
collect(results) ==
    IF results = <<>> THEN Ok(<<>>)
    ELSE LET h == try_into_domain_player_count(Head(results))
         IN  IF ~h.ok THEN h
             ELSE LET t == collect(Tail(results))
                  IN  IF t.ok THEN Ok(<<h.val>> \o t.val) ELSE t

\* get_all_{break_counts, build_counts, play_ticks, vote_counts}: the call
\* either fails (`.await?`) or its results are converted.
get_all(transport_ok, results) ==
    IF ~transport_ok THEN Err(UnavailableMsg) ELSE collect(results)

-----------------------------------------------------------------------------
(* use_cases::GetAllPlayerDataUseCase *)

Kinds == 1..4

FieldOf == <<"break_count", "build_count", "play_ticks", "vote_count">>

\* #[derive(Default)]: every field 0.
AggregatedPlayerDataDefault ==
    [break_count |-> 0, build_count |-> 0, play_ticks |-> 0, vote_count |-> 0]

PendingSlots == [k \in Kinds |-> [done |-> FALSE, val |-> <<>>]]

\* A plausible slip: an Err is taken as an empty result (join! and
\* unwrap_or_default instead of try_join! and ?).
try_join_lenient(sl, k, res) ==
    [slots |-> [sl EXCEPT ![k] = [done |-> TRUE, val |-> IF res.ok THEN res.val ELSE <<>>]],
     err   |-> None]

\* try_join!: a future that returns Ok fills its slot; one that returns Err
\* ends the join with that error, and the other futures and outputs are dropped.
try_join(sl, k, res) ==
    IF res.ok
    THEN [slots |-> [sl EXCEPT ![k] = [done |-> TRUE, val |-> res.val]], err |-> None]
    ELSE [slots |-> PendingSlots, err |-> Some(res.err)]

\* A plausible slip: the first future to complete ends the join (select!).
join_ready_any(sl) == \E k \in Kinds : sl[k].done

\* try_join! returns Ok once all four futures have returned Ok.
join_ready(sl) == \A k \in Kinds : sl[k].done

contains_key(map, key) == \E i \in 1..Len(map) : map[i].key = key

\* A plausible slip: a new entry is put in front of the others.
entry_or_default_front(map, key) ==
    IF contains_key(map, key)
    THEN map
    ELSE <<[key |-> key, value |-> AggregatedPlayerDataDefault]>> \o map

\* IndexMap::entry(key).or_default(): a new key is appended with the default
\* value, a present key keeps its place and its value.
entry_or_default(map, key) ==
    IF contains_key(map, key)
    THEN map
    ELSE Append(map, [key |-> key, value |-> AggregatedPlayerDataDefault])

\* A plausible slip: += instead of =.
assign_field_adding(map, key, field, count) ==
    [i \in 1..Len(map) |->
        IF map[i].key = key
        THEN [map[i] EXCEPT !.value[field] = @ + count]
        ELSE map[i]]

\* A plausible slip of the four look-alike loops: the field of the first loop is
\* written by all of them.
assign_field_first_loop(map, key, field, count) ==
    [i \in 1..Len(map) |->
        IF map[i].key = key
        THEN [map[i] EXCEPT !.value["break_count"] = count]
        ELSE map[i]]

\* entry.<field> = <count>
assign_field(map, key, field, count) ==
    [i \in 1..Len(map) |->
        IF map[i].key = key
        THEN [map[i] EXCEPT !.value[field] = count]
        ELSE map[i]]

\* The body of one of the four for-loops.
fold_record(map, field, rec) ==
    assign_field(entry_or_default(map, rec.player), rec.player, field, rec.count)

\* A plausible slip: the output of the future that completed last is folded
\* first.
loop_order_by_completion ==
    IF last_completed = 0 THEN <<1, 2, 3, 4>>
    ELSE <<last_completed>> \o SelectSeq(<<1, 2, 3, 4>>, LAMBDA k : k # last_completed)

\* The four for-loops run over break_counts, build_counts, play_ticks and
\* vote_counts, in this order.
loop_order == <<1, 2, 3, 4>>

\* The position of the next record the loops take, from position c on.
RECURSIVE next_record(_, _)
next_record(sl, c) ==
    IF c.loop > 4 THEN c
    ELSE IF c.idx <= Len(sl[loop_order[c.loop]].val) THEN c
    ELSE next_record(sl, [loop |-> c.loop + 1, idx |-> 1])

-----------------------------------------------------------------------------
(* infra_axum_handlers *)

HelpLine ==
    <<35, 32, 72, 69, 76, 80, 32, 112, 108, 97, 121, 101, 114, 95, 100, 97, 116,
      97, 32, 80, 108, 97, 121, 101, 114, 32, 109, 101, 116, 114, 105, 99, 115,
      44, 32, 112, 97, 114, 116, 105, 116, 105, 111, 110, 101, 100, 32, 98, 121,
      32, 117, 117, 105, 100, 32, 97, 110, 100, 32, 107, 105, 110, 100, 10>>

TypeLine ==
    <<35, 32, 84, 89, 80, 69, 32, 112, 108, 97, 121, 101, 114, 95, 100, 97, 116,
      97, 32, 103, 97, 117, 103, 101, 10>>

RecordPrefix ==
    <<112, 108, 97, 121, 101, 114, 95, 100, 97, 116, 97, 123, 117, 117, 105, 100,
      61, 34>>

RecordMiddle == <<34, 44, 107, 105, 110, 100, 61, 34>>

RecordSuffix == <<34, 125, 32>>

KindText ==
    [break_count |-> <<98, 114, 101, 97, 107, 95, 99, 111, 117, 110, 116>>,
     build_count |-> <<98, 117, 105, 108, 100, 95, 99, 111, 117, 110, 116>>,
     play_ticks  |-> <<112, 108, 97, 121, 95, 116, 105, 99, 107, 115>>,
     vote_count  |-> <<118, 111, 116, 101, 95, 99, 111, 117, 110, 116>>]

ConstErrorBody ==
    <<69, 110, 99, 111, 117, 110, 116, 101, 114, 101, 100, 32, 105, 110, 116, 101,
      114, 110, 97, 108, 32, 115, 101, 114, 118, 101, 114, 32, 101, 114, 114, 111,
      114, 46, 32, 80, 108, 101, 97, 115, 101, 32, 99, 111, 110, 116, 97, 99, 116,
      32, 116, 104, 101, 32, 115, 101, 114, 118, 101, 114, 32, 97, 100, 109, 105,
      110, 105, 115, 116, 114, 97, 116, 111, 114, 32, 116, 111, 32, 114, 101, 115,
      111, 108, 118, 101, 32, 116, 104, 101, 32, 105, 115, 115, 117, 101, 46>>

\* write_record: target is a Result<String>; an earlier `?` has returned if it
\* is an Err.
write_record(target, player, kind, value) ==
    IF ~target.ok THEN target
    ELSE LET s == as_str(player.uuid)
         IN  IF ~s.ok THEN s
             ELSE Ok(target.val \o RecordPrefix \o s.val \o RecordMiddle
                     \o KindText[kind] \o RecordSuffix \o to_decimal(value) \o <<10>>)

RECURSIVE write_entries(_, _)
write_entries(target, entries) ==
    IF entries = <<>> THEN target
    ELSE LET player == Head(entries).key
             data   == Head(entries).value
             r1 == write_record(target, player, "break_count", data.break_count)
             r2 == write_record(r1, player, "build_count", data.build_count)
             r3 == write_record(r2, player, "play_ticks", data.play_ticks)
             r4 == write_record(r3, player, "vote_count", data.vote_count)
         IN  write_entries(r4, Tail(entries))

present_player_data_as_prometheus_metrics(data) ==
    write_entries(Ok(HelpLine \o TypeLine), data)

\* A plausible slip: the error is sent to the client.
error_response_with_detail(result) ==
    IF result.ok
    THEN [status |-> 200, body |-> result.val]
    ELSE [status |-> 500, body |-> result.err]

\* const_error_response and the match of the handler.
handler_response(result) ==
    IF result.ok
    THEN [status |-> 200, body |-> result.val]
    ELSE [status |-> 500, body |-> ConstErrorBody]

-----------------------------------------------------------------------------
(* One request to /metrics *)

UuidA == [i \in 1..UuidLen |-> 97]

UuidB == [i \in 1..UuidLen |-> 98]

\* 34 ASCII characters and one two-byte character: 36 bytes, not ASCII.
NonAsciiUuid == [i \in 1..(UuidLen - 1) |-> IF i = UuidLen - 1 THEN 233 ELSE 97]

RawPlayer(uuid) == Some([uuid |-> uuid])

RawRecords ==
    {[player |-> RawPlayer(u), count |-> c] : u \in {UuidA, UuidB}, c \in {0, MaxCount}}
    \cup {[player |-> None, count |-> 1],
          [player |-> RawPlayer(NonAsciiUuid), count |-> 1]}

Lengths ==
    {l \in [Kinds -> 0..MaxTotal] : l[1] + l[2] + l[3] + l[4] <= MaxTotal}

Init ==
    /\ \E l \in Lengths :
         \E s1 \in [1..l[1] -> RawRecords], s2 \in [1..l[2] -> RawRecords],
            s3 \in [1..l[3] -> RawRecords], s4 \in [1..l[4] -> RawRecords] :
              source = <<s1, s2, s3, s4>>
    /\ slots = PendingSlots
    /\ fetch_failed = FALSE
    /\ last_completed = 0
    /\ pc = "join"
    /\ result_map = None
    /\ capacity = 0
    /\ cursor = [loop |-> 0, idx |-> 0]
    /\ aggregated = None
    /\ rendered = None
    /\ response = None
    /\ IdleValidate
    /\ IdlePresent

\* One of the four futures of try_join! completes.
PollFetch(k) ==
    /\ pc = "join"
    /\ ~slots[k].done
    /\ \E transport_ok \in BOOLEAN :
         LET res == get_all(transport_ok, source[k])
             j   == try_join(slots, k, res)
         IN  /\ slots' = j.slots
             /\ fetch_failed' = (fetch_failed \/ ~res.ok)
             /\ last_completed' = IF ~j.err.some /\ join_ready(j.slots) THEN k ELSE 0
             /\ IF j.err.some
                THEN /\ aggregated' = Some(Err(j.err.val))
                     /\ pc' = "returned"
                ELSE /\ aggregated' = aggregated
                     /\ pc' = IF join_ready(j.slots) THEN "joined" ELSE "join"
    /\ UNCHANGED <<source, result_map, capacity, cursor, rendered, response,
                   validate_vars, present_vars>>

\* IndexMap::with_capacity(break_counts.len())
CreateMap ==
    /\ pc = "joined"
    /\ result_map' = Some(<<>>)
    /\ capacity' = Len(slots[1].val)
    /\ cursor' = next_record(slots, [loop |-> 1, idx |-> 1])
    /\ pc' = "fold"
    /\ UNCHANGED <<source, slots, fetch_failed, last_completed, aggregated, rendered, response,
                   validate_vars, present_vars>>

\* One iteration of one of the four for-loops.
FoldStep ==
    /\ pc = "fold"
    /\ cursor.loop <= 4
    /\ result_map' = Some(fold_record(result_map.val, FieldOf[loop_order[cursor.loop]],
                                      slots[loop_order[cursor.loop]].val[cursor.idx]))
    /\ cursor' = next_record(slots, [cursor EXCEPT !.idx = @ + 1])
    /\ UNCHANGED <<source, slots, fetch_failed, last_completed, pc, capacity, aggregated, rendered,
                   response, validate_vars, present_vars>>

\* Ok(KnownAggregatedPlayerData(result_map))
ReturnMap ==
    /\ pc = "fold"
    /\ cursor.loop > 4
    /\ aggregated' = Some(Ok(result_map.val))
    /\ pc' = "returned"
    /\ UNCHANGED <<source, slots, fetch_failed, last_completed, result_map, capacity, cursor,
                   rendered, response, validate_vars, present_vars>>

\* .and_then(|data| present_player_data_as_prometheus_metrics(&data)) and the
\* match on its result.
Respond ==
    /\ pc = "returned"
    /\ LET r == IF aggregated.val.ok
                THEN present_player_data_as_prometheus_metrics(aggregated.val.val)
                ELSE aggregated.val
       IN  /\ rendered' = Some(r)
           /\ response' = Some(handler_response(r))
    /\ pc' = "done"
    /\ UNCHANGED <<source, slots, fetch_failed, last_completed, result_map, capacity, cursor,
                   aggregated, validate_vars, present_vars>>

Next ==
    \/ \E k \in Kinds : PollFetch(k)
    \/ CreateMap
    \/ FoldStep
    \/ ReturnMap
    \/ Respond

Spec == Init /\ [][Next]_vars

-----------------------------------------------------------------------------
(* What the claims speak of, read off the responses of the server *)

ValidUuid(u) == (\A i \in 1..Len(u) : u[i] < 128) /\ Len(u) = 36

BadRecord(r) == ~r.player.some \/ ~ValidUuid(r.player.val.uuid)

BadSource(k) == \E i \in 1..Len(source[k]) : BadRecord(source[k][i])

AllSourcesGood == \A k \in Kinds : ~BadSource(k)

UuidAt(k, i) == source[k][i].player.val.uuid

Max(S) == CHOOSE x \in S : \A y \in S : y <= x

\* The number of records of sequence k that the loops have taken.
Processed(k) ==
    IF ~result_map.some THEN 0
    ELSE IF cursor.loop > k THEN Len(source[k])
    ELSE IF cursor.loop = k THEN cursor.idx - 1
    ELSE 0

\* The count of the last of the first n records of sequence k for identity u,
\* 0 if there is none.
LastCount(k, u, n) ==
    LET idxs == {i \in 1..n : UuidAt(k, i) = u}
    IN  IF idxs = {} THEN 0 ELSE source[k][Max(idxs)].count

\* The identities of the first n[k] records of each sequence, break counts
\* first, then build counts, play ticks and vote counts.
UuidsOf(n) ==
    [i \in 1..n[1] |-> UuidAt(1, i)] \o [i \in 1..n[2] |-> UuidAt(2, i)]
    \o [i \in 1..n[3] |-> UuidAt(3, i)] \o [i \in 1..n[4] |-> UuidAt(4, i)]

\* The elements of seq in the order of their first occurrence.
RECURSIVE FirstSeen(_, _)
FirstSeen(seq, i) ==
    IF i > Len(seq) THEN <<>>
    ELSE (IF \E j \in 1..(i - 1) : seq[j] = seq[i] THEN <<>> ELSE <<seq[i]>>)
         \o FirstSeen(seq, i + 1)

KeysOf(map) == [e \in 1..Len(map) |-> map[e].key.uuid]

SequencesWith(u) == {k \in Kinds : \E i \in 1..Len(source[k]) : UuidAt(k, i) = u}

AllUuids == UNION {{UuidAt(k, i) : i \in 1..Len(source[k])} : k \in Kinds}

EntryOf(map, u) == map[CHOOSE e \in 1..Len(map) : map[e].key.uuid = u]

NonZeroFields(v) == {f \in DOMAIN v : v[f] # 0}

Succeeded == aggregated.some /\ aggregated.val.ok

\* The text needle occurs in the text hay.
Contains(hay, needle) ==
    \E i \in 1..(Len(hay) - Len(needle) + 1) :
        SubSeq(hay, i, i + Len(needle) - 1) = needle

-----------------------------------------------------------------------------
\* C1: if one of the four fetches fails, get_all_known_aggregated_player_data
\* returns an error and no map is ever made, not even of the fetches that
\* succeeded; it returns a map only when all four fetches succeeded.
C1_AllOrNothing ==
    /\ fetch_failed =>
          /\ aggregated.some /\ ~aggregated.val.ok
          /\ ~result_map.some
    /\ Succeeded =>
          /\ ~fetch_failed
          /\ \A k \in Kinds : slots[k].done

\* Three non-empty sequences convert, a call fails, and the request has ended
\* with the error of that call and without a map.
C1_Witness ==
    /\ pc = "done"
    /\ fetch_failed
    /\ AllSourcesGood
    /\ Cardinality({k \in Kinds : source[k] # <<>>}) = 3
    /\ aggregated.val = Err(UnavailableMsg)
    /\ ~result_map.some

\* C2: the handler answers 200 with the rendered text when aggregation and
\* rendering succeed; on a failure of either it answers 500 with one fixed
\* body, in which the text of the error does not occur.
C2_HandlerOutcome ==
    response.some =>
        IF Succeeded /\ rendered.val.ok
        THEN /\ response.val.status = 200
             /\ response.val.body = rendered.val.val
        ELSE /\ response.val.status = 500
             /\ response.val.body = ConstErrorBody
             /\ ~Contains(response.val.body, rendered.val.err)

\* A record with a non-ASCII identity made the aggregation fail with an error
\* that quotes the identity, and the handler has answered.
C2_Witness ==
    /\ response.some
    /\ response.val.status = 500
    /\ aggregated.val = Err(NotAsciiMsg \o NonAsciiUuid)

\* C3: at every point of the fold, the field of kind k of the aggregate of an
\* identity is the count of the last record for that identity among the records
\* of sequence k taken so far (0 if there is none): duplicates are not summed,
\* and a record changes no field of another kind.
C3_LastWriteWins ==
    (result_map.some /\ AllSourcesGood) =>
        \A e \in 1..Len(result_map.val), k \in Kinds :
            result_map.val[e].value[FieldOf[k]]
                = LastCount(k, result_map.val[e].key.uuid, Processed(k))

\* A sequence held two records with different counts for one identity, and
\* another sequence a non-zero record for the same identity.
C3_Witness ==
    /\ pc = "done"
    /\ Succeeded
    /\ \E k \in Kinds :
         /\ Len(source[k]) >= 2
         /\ UuidAt(k, 1) = UuidAt(k, 2)
         /\ source[k][1].count # source[k][2].count
         /\ \E k2 \in Kinds \ {k} :
              /\ source[k2] # <<>>
              /\ UuidAt(k2, 1) = UuidAt(k, 1)
              /\ source[k2][1].count # 0

\* C4 as stated: an identity present in only one of the four sequences yields
\* an aggregate with exactly one non-zero field, the one of that sequence.
C4_ExactlyOneNonZero ==
    Succeeded =>
        \A u \in AllUuids :
            Cardinality(SequencesWith(u)) = 1 =>
                NonZeroFields(EntryOf(aggregated.val.val, u).value)
                    = {FieldOf[k] : k \in SequencesWith(u)}

\* C4, amended: an identity present in only one of the four sequences yields an
\* aggregate whose other three fields are 0 and whose field of that sequence is
\* the last count the sequence gives for the identity (which may be 0).
C4_MissingFieldDefault ==
    Succeeded =>
        \A u \in AllUuids :
            Cardinality(SequencesWith(u)) = 1 =>
                \A k \in Kinds :
                    EntryOf(aggregated.val.val, u).value[FieldOf[k]]
                        = IF k \in SequencesWith(u)
                          THEN LastCount(k, u, Len(source[k]))
                          ELSE 0

\* An identity occurs in the build counts only, with a non-zero count, beside
\* another identity.
C4_Witness ==
    /\ pc = "done"
    /\ Succeeded
    /\ Len(aggregated.val.val) = 2
    /\ \E u \in AllUuids :
         /\ SequencesWith(u) = {2}
         /\ EntryOf(aggregated.val.val, u).value.build_count # 0

\* C7: the map is neither made nor changed before all four fetches have
\* returned Ok, and after a failed fetch no step of the fold runs.
C7_FoldAfterJoin ==
    (result_map.some \/ cursor.loop # 0 \/ pc \in {"joined", "fold"}) =>
        /\ \A k \in Kinds : slots[k].done
        /\ ~fetch_failed

\* The fold is under way: the map holds an entry and records are left.
C7_Witness ==
    /\ pc = "fold"
    /\ result_map.some
    /\ Len(result_map.val) >= 1
    /\ cursor.loop <= 4
    /\ last_completed = 1

\* C8: a record without a player, or with an identity that fails validation,
\* makes its fetch fail as a whole: the slot of that fetch is never filled, no
\* map is made, and the aggregation ends with an error.
C8_BadPlayerIsFatal ==
    \A k \in Kinds :
        BadSource(k) =>
            /\ ~slots[k].done /\ slots[k].val = <<>>
            /\ ~result_map.some
            /\ pc \notin {"joined", "fold"}
            /\ aggregated.some => ~aggregated.val.ok
            /\ pc = "done" => (aggregated.some /\ response.val.status = 500)

\* A sequence holds a good record and then one without a player; the request
\* has ended with the error of that record.
C8_Witness ==
    /\ pc = "done"
    /\ \E k \in Kinds :
         /\ Len(source[k]) >= 2
         /\ ~BadRecord(source[k][1])
         /\ ~source[k][2].player.some
    /\ aggregated.val = Err(PlayerFieldNotSetMsg)

\* C9: the keys of the map are the identities of the records taken so far, each
\* once, in the order of their first occurrence in the break counts, then the
\* build counts, the play ticks and the vote counts: a record for a present
\* identity does not move its entry, and the map grows past its capacity.
C9_KeysInFirstSeenOrder ==
    (result_map.some /\ AllSourcesGood) =>
        KeysOf(result_map.val)
            = FirstSeen(UuidsOf([k \in Kinds |-> Processed(k)]), 1)

\* The map has outgrown the capacity it was made with, and the last record
\* was one for the identity of the first of its two entries.
C9_Witness ==
    /\ pc = "done"
    /\ Succeeded
    /\ Len(result_map.val) = 2
    /\ capacity < 2
    /\ LET all == UuidsOf([k \in Kinds |-> Len(source[k])])
       IN  /\ Len(all) = 3
           /\ all[3] = all[1]
           /\ all[2] # all[1]

\* What the four sequences determine: the identities in the order of their
\* first occurrence, each with the last count of every kind.
ExpectedMap ==
    LET keys == FirstSeen(UuidsOf([k \in Kinds |-> Len(source[k])]), 1)
    IN  [e \in 1..Len(keys) |->
            [key   |-> [uuid |-> keys[e]],
             value |-> [break_count |-> LastCount(1, keys[e], Len(source[1])),
                        build_count |-> LastCount(2, keys[e], Len(source[2])),
                        play_ticks  |-> LastCount(3, keys[e], Len(source[3])),
                        vote_count  |-> LastCount(4, keys[e], Len(source[4]))]]]

\* C10: the map returned, content and order, is a function of the four
\* sequences alone, whatever the order in which the fetches complete.
C10_MergeDeterminism ==
    Succeeded => aggregated.val.val = ExpectedMap

\* The break counts arrived last, and the vote counts brought an identity the
\* break counts do not have.
C10_Witness ==
    /\ pc = "done"
    /\ Succeeded
    /\ last_completed = 1
    /\ source[1] # <<>>
    /\ source[4] # <<>>
    /\ UuidAt(4, 1) # UuidAt(1, 1)
    /\ Len(aggregated.val.val) = 2

-----------------------------------------------------------------------------
(* Specification of the validator alone *)

\* A string of n characters, all 'a' except a two-byte character at p (p = 0: none).
StringOf(n, p) == [i \in 1..n |-> IF i = p THEN 233 ELSE 97]

InputStrings == {StringOf(n, p) : n \in 0..MaxStrLen, p \in 0..MaxStrLen}

InitValidate ==
    /\ uuid_input \in InputStrings
    /\ uuid_result = None
    /\ IdleRequest
    /\ IdlePresent

FromString ==
    /\ uuid_result = None
    /\ uuid_result' = Some(from_string(uuid_input))
    /\ UNCHANGED <<uuid_input, request_vars, present_vars>>

NextValidate == FromString

SpecValidate == InitValidate /\ [][NextValidate]_vars

-----------------------------------------------------------------------------
\* C5: from_string succeeds exactly on the ASCII strings of 36 characters; a
\* string with a non-ASCII character is rejected with the encoding error whatever
\* its length, an ASCII string of another length with the length error.
AllAsciiChars(str) == \A i \in 1..Len(str) : str[i] < 128

C5_IdentityValidation ==
    uuid_result.some =>
        LET r == uuid_result.val
            s == uuid_input
        IN  /\ r.ok <=> (AllAsciiChars(s) /\ Len(s) = 36)
            /\ ~AllAsciiChars(s) => (~r.ok /\ r.err = NotAsciiMsg \o s)
            /\ (AllAsciiChars(s) /\ Len(s) # 36) => (~r.ok /\ r.err = BadLengthMsg \o s)

\* A non-ASCII string of 36 bytes has been rejected with the encoding error.
C5_Witness ==
    /\ uuid_result.some
    /\ ~AllAsciiChars(uuid_input)
    /\ str_len(uuid_input) = 36
    /\ ~uuid_result.val.ok

-----------------------------------------------------------------------------
(* Specification of the presenter alone *)

\* 36 ASCII characters, the last of them a line feed: from_string accepts it.
UuidWithLineFeed == [i \in 1..UuidLen |-> IF i = UuidLen THEN 10 ELSE 99]

SamplePlayers ==
    {[uuid |-> from_string(u).val] :
        u \in {v \in {UuidA, UuidB, UuidWithLineFeed} : from_string(v).ok}}

SampleData ==
    [break_count : {0, MaxCount, 10 + MaxCount}, build_count : {0, MaxCount},
     play_ticks : {0, MaxCount}, vote_count : {0, MaxCount}]

DistinctKeys(map) ==
    \A i, j \in 1..Len(map) : map[i].key = map[j].key => i = j

InitPresent ==
    /\ \E n \in 0..MaxEntries :
         \E m \in [1..n -> [key : SamplePlayers, value : SampleData]] :
            /\ DistinctKeys(m)
            /\ present_input = m
    /\ present_output = None
    /\ IdleRequest
    /\ IdleValidate

PresentMetrics ==
    /\ present_output = None
    /\ present_output' = Some(present_player_data_as_prometheus_metrics(present_input))
    /\ UNCHANGED <<present_input, request_vars, validate_vars>>

NextPresent == PresentMetrics

SpecPresent == InitPresent /\ [][NextPresent]_vars

-----------------------------------------------------------------------------
\* The number of lines of a text in which every line ends with a line feed.
LineCount(text) == Cardinality({i \in 1..Len(text) : text[i] = 10})

\* The line of one field of one entry, without its terminator.
ExpectedLine(entry, field) ==
    RecordPrefix \o entry.key.uuid \o RecordMiddle \o KindText[field]
    \o RecordSuffix \o to_decimal(entry.value[field])

RECURSIVE ExpectedLines(_)
ExpectedLines(map) ==
    IF map = <<>> THEN <<>>
    ELSE ExpectedLine(Head(map), "break_count") \o <<10>>
         \o ExpectedLine(Head(map), "build_count") \o <<10>>
         \o ExpectedLine(Head(map), "play_ticks") \o <<10>>
         \o ExpectedLine(Head(map), "vote_count") \o <<10>>
         \o ExpectedLines(Tail(map))

\* C6: for a map of n identities the presenter produces exactly 2 + 4n lines:
\* the two header lines, then for each identity in map order the lines of
\* break_count, build_count, play_ticks and vote_count, each with the identity
\* and the value of the field.
C6_LineCountAndLayout ==
    present_output.some =>
        /\ present_output.val.ok
        /\ present_output.val.val = HelpLine \o TypeLine \o ExpectedLines(present_input)
        /\ LineCount(present_output.val.val) = 2 + 4 * Len(present_input)

====
